---- MODULE Spec2Model ----
(***************************************************************************)
(* Acoustic models of model_zoo/speech_model/keras_backend.py: the base    *)
(* class BaseModel, the four CNN+CTC variants, single-utterance inference  *)
(* (forward), weight persistence (save_weights / load_weights) and the     *)
(* blank-tail trimmer applied to the decoded labels.                       *)
(***************************************************************************)
EXTENDS Integers, Sequences, FiniteSets

(***************************************************************************)
(* Bounds of the model.                                                    *)
(***************************************************************************)
MaxLen == 4
MaxT == 17
MaxF == 9
MaxVocab == 3
MaxW == 1

(***************************************************************************)
(* Program constants.                                                      *)
(***************************************************************************)
PoolSize == 8
ReshapeChannels == 128
batch_size == 1

\* K.ctc_decode returns blank / padding labels as -1
BlankLabel == 0 - 1

Instances == {"m1", "m2"}
ConcreteClasses == {"SpeechModel251BN", "SpeechModel251", "SpeechModel25", "SpeechModel24"}
Classes == ConcreteClasses \cup {"BaseModel"}

\* Python's None for the attributes of an instance
None == "None"
NoShape == <<>>

VARIABLES
    cls,            \* class of each instance slot, "none" before construction
    input_shape,    \* self.input_shape
    output_shape,   \* self.output_shape
    _pool_size,     \* self._pool_size (0: attribute not set)
    _model_name,    \* self._model_name
    model,          \* self.model, the training graph
    model_base,     \* self.model_base, the inference graph
    weights,        \* learnable parameters of the layers both graphs share
    fs,             \* file system: file name -> content
    latest,         \* history: model name -> base path of its last successful save
    ret,            \* outcome of the most recent call
    ctc_decode_list,\* trimmer: the raw decoded sequence
    blank,          \* trimmer: the blank id
    trimmed         \* trimmer: results of the successive applications

vars == <<cls, input_shape, output_shape, _pool_size, _model_name, model,
          model_base, weights, fs, latest, ret, ctc_decode_list, blank, trimmed>>

modelVars == <<cls, input_shape, output_shape, _pool_size, _model_name, model,
               model_base, weights, fs, latest, ret>>
trimVars == <<ctc_decode_list, blank, trimmed>>

(***************************************************************************)
(* Blank-tail trimmer, utils.ops.ctc_decode_delete_tail_blank: while the   *)
(* last element equals the blank value, remove it.                         *)
(***************************************************************************)
RECURSIVE trim_keep_all(_, _)
trim_keep_all(S, B) ==
    IF Len(S) = 0 THEN S
    ELSE IF Head(S) = B THEN trim_keep_all(Tail(S), B)
    ELSE <<Head(S)>> \o trim_keep_all(Tail(S), B)

trim_one(S, B) ==
    IF Len(S) > 0 /\ S[Len(S)] = B THEN SubSeq(S, 1, Len(S) - 1) ELSE S

RECURSIVE trim(_, _)
trim(S, B) ==
    IF Len(S) = 0 THEN S
    ELSE IF S[Len(S)] = B THEN trim(SubSeq(S, 1, Len(S) - 1), B)
    ELSE S

ctc_decode_delete_tail_blank(r) == trim(r, BlankLabel)


(***************************************************************************)
(* Construction.                                                           *)
(***************************************************************************)
ModelNameOf(c) ==
    CASE c = "SpeechModel251BN" -> "SpeechModel251bn"
      [] c = "SpeechModel251"   -> "SpeechModel251"
      [] c = "SpeechModel25"    -> "SpeechModel25"
      [] c = "SpeechModel24"    -> "SpeechModel24"
      [] OTHER                  -> None

ModelNames == {ModelNameOf(c) : c \in ConcreteClasses}

PoolStages_fourth_pool_2(c) ==
    CASE c = "SpeechModel251BN" -> <<2, 2, 2, 2, 1>>
      [] c = "SpeechModel251"   -> <<2, 2, 2, 1, 1>>
      [] c = "SpeechModel25"    -> <<2, 2, 2, 1>>
      [] c = "SpeechModel24"    -> <<2, 2, 2>>
      [] OTHER                  -> <<>>

\* pool_size of the MaxPooling2D stages of _define_model, in order
PoolStages(c) ==
    CASE c = "SpeechModel251BN" -> <<2, 2, 2, 1, 1>>
      [] c = "SpeechModel251"   -> <<2, 2, 2, 1, 1>>
      [] c = "SpeechModel25"    -> <<2, 2, 2, 1>>
      [] c = "SpeechModel24"    -> <<2, 2, 2>>
      [] OTHER                  -> <<>>

\* MaxPooling2D(padding="valid", strides=None) along one axis: floor(dim / p);
\* a dimension smaller than the window cannot be pooled (-1)
RECURSIVE Pooled(_, _)
Pooled(dim, stages) ==
    IF Len(stages) = 0 THEN dim
    ELSE IF dim < Head(stages) THEN 0 - 1
    ELSE Pooled(dim \div Head(stages), Tail(stages))

\* filters of the last Conv2D before the Reshape
LastConvFilters(c) ==
    CASE c = "SpeechModel251BN" -> 128
      [] c = "SpeechModel251"   -> 128
      [] c = "SpeechModel25"    -> 128
      [] c = "SpeechModel24"    -> 128
      [] OTHER                  -> 0

\* shape of the tensor the last pooling stage leaves: (time, feature, channels)
PooledTensor(c, shape) ==
    <<Pooled(shape[1], PoolStages(c)), Pooled(shape[2], PoolStages(c)), LastConvFilters(c)>>

RECURSIVE Product(_)
Product(stages) ==
    IF Len(stages) = 0 THEN 1 ELSE Head(stages) * Product(Tail(stages))

OutputShape_plus_blank(shape, output_size) == <<shape[1] \div PoolSize, output_size + 1>>

\* self.output_shape = (input_shape[0] // self._pool_size, output_size)
OutputShape(shape, output_size) == <<shape[1] \div PoolSize, output_size>>

\* Reshape((self.output_shape[0], input_shape[1] // self._pool_size * 128)):
\* the graph is built only if every pooling stage applies and the element
\* counts of the pooled tensor and of the Reshape target agree
\* Reshape((self.output_shape[0], input_shape[1] // self._pool_size * 128))
ReshapeTarget(shape, output_size) ==
    <<OutputShape(shape, output_size)[1], (shape[2] \div PoolSize) * ReshapeChannels>>

DefineModelBuilds(c, shape, output_size) ==
    LET p == PooledTensor(c, shape)
        r == ReshapeTarget(shape, output_size)
    IN  /\ p[1] >= 0 /\ p[2] >= 0
        /\ p[1] * p[2] * p[3] = r[1] * r[2]

DefineModel_no_base(c) == [model |-> "Model", model_base |-> None]

\* return model, model_base: the training graph and the inference graph
DefineModel(c) == [model |-> "Model", model_base |-> "Model"]

NoCall ==
    [op |-> "none", self |-> "none", status |-> "none", exc |-> None,
     value |-> <<>>, filename |-> <<>>, data_len |-> 0, in_len |-> 0,
     x_in |-> <<>>, output_size |-> 0, params |-> 0,
     data_input |-> <<>>, x_shape |-> <<>>,
     arg_cls |-> "none", arg_shape |-> <<>>, pooled |-> <<>>, reshape |-> <<>>]

Returned(op, i) == [NoCall EXCEPT !.op = op, !.self = i, !.status = "return"]
Raised(op, i, e) == [NoCall EXCEPT !.op = op, !.self = i, !.status = "raise", !.exc = e]

\* BaseModel(): every attribute is None
ConstructBase(i) ==
    /\ cls[i] = "none"
    /\ cls' = [cls EXCEPT ![i] = "BaseModel"]
    /\ ret' = Returned("__init__", i)
    /\ UNCHANGED <<input_shape, output_shape, _pool_size, _model_name, model,
                   model_base, weights, fs, latest, trimVars>>

\* SpeechModelXXX(input_shape, output_size); w0 is the he_normal initialisation
Construct(i, c, shape, output_size, w0) ==
    /\ cls[i] = "none"
    /\ c \in ConcreteClasses
    /\ IF DefineModelBuilds(c, shape, output_size)
       THEN /\ cls' = [cls EXCEPT ![i] = c]
            /\ input_shape' = [input_shape EXCEPT ![i] = shape]
            /\ _pool_size' = [_pool_size EXCEPT ![i] = PoolSize]
            /\ output_shape' = [output_shape EXCEPT ![i] = OutputShape(shape, output_size)]
            /\ _model_name' = [_model_name EXCEPT ![i] = ModelNameOf(c)]
            /\ model' = [model EXCEPT ![i] = DefineModel(c).model]
            /\ model_base' = [model_base EXCEPT ![i] = DefineModel(c).model_base]
            /\ weights' = [weights EXCEPT ![i] = w0]
            /\ ret' = [Returned("__init__", i) EXCEPT
                          !.output_size = output_size, !.arg_cls = c, !.arg_shape = shape,
                          !.pooled = PooledTensor(c, shape),
                          !.reshape = ReshapeTarget(shape, output_size)]
       ELSE /\ w0 = 0
            /\ ret' = [Raised("__init__", i, "ValueError") EXCEPT
                          !.output_size = output_size, !.arg_cls = c, !.arg_shape = shape,
                          !.pooled = PooledTensor(c, shape),
                          !.reshape = ReshapeTarget(shape, output_size)]
            /\ UNCHANGED <<cls, input_shape, output_shape, _pool_size, _model_name,
                           model, model_base, weights>>
    /\ UNCHANGED <<fs, latest, trimVars>>


(***************************************************************************)
(* get_loss_function and forward.                                          *)
(***************************************************************************)
get_loss_function_default(c) == [status |-> "return", exc |-> None, value |-> <<"ctc">>]

\* BaseModel raises Exception("method not implemented"); every variant
\* returns {'ctc': lambda y_true, y_pred: y_pred}
get_loss_function(c) ==
    IF c = "BaseModel"
    THEN [status |-> "raise", exc |-> "Exception: method not implemented", value |-> <<>>]
    ELSE [status |-> "return", exc |-> None, value |-> <<"ctc">>]

GetLossFunction(i) ==
    /\ cls[i] # "none"
    /\ LET r == get_loss_function(cls[i])
       IN  ret' = [NoCall EXCEPT !.op = "get_loss_function", !.self = i,
                                 !.status = r.status, !.exc = r.exc, !.value = r.value]
    /\ UNCHANGED <<cls, input_shape, output_shape, _pool_size, _model_name, model,
                   model_base, weights, fs, latest, trimVars>>

Zeros_ones(T) == [k \in 1..T |-> 1]

\* np.zeros((batch_size,) + self.input_shape)[0]: one all-zero frame per time step
Zeros(T) == [k \in 1..T |-> 0]

Min(a, b) == IF a < b THEN a ELSE b

SetSlice_truncating(buf, stop, data) ==
    [ok |-> TRUE,
     buf |-> [k \in 1..Len(buf) |-> IF k <= Min(stop, Len(data)) THEN data[k] ELSE buf[k]]]

\* numpy: buf[0:stop] = data.  The slice is clipped to the buffer; data is
\* copied when its length is the slice's, broadcast when it has one frame,
\* and the assignment raises ValueError otherwise, writing nothing
SetSlice(buf, stop, data) ==
    LET n == Min(stop, Len(buf))
    IN  IF Len(data) = n
        THEN [ok |-> TRUE, buf |-> [k \in 1..Len(buf) |-> IF k <= n THEN data[k] ELSE buf[k]]]
        ELSE IF Len(data) = 1
        THEN [ok |-> TRUE, buf |-> [k \in 1..Len(buf) |-> IF k <= n THEN data[1] ELSE buf[k]]]
        ELSE [ok |-> FALSE, buf |-> buf]

InLen_frames(i, data_input) == Len(data_input)

\* in_len[0] = self.output_shape[0]
InLen(i, data_input) == output_shape[i][1]

\* time steps of model_base.predict(x_in)[0]: the Reshape target's first axis
PredictSteps(i) == output_shape[i][1]

\* K.ctc_decode(base_pred, in_len, greedy=True)[0][0][0]: labels of the
\* non-blank classes 0..output_size-2, at most in_len of them, padded with -1
IsCtcDecoded(r, in_len, output_size) ==
    /\ Len(r) <= in_len
    /\ \A k \in 1..Len(r) : r[k] = BlankLabel \/ (r[k] >= 0 /\ r[k] <= output_size - 2)
    /\ \A k \in 1..Len(r) : r[k] = BlankLabel => \A j \in k..Len(r) : r[j] = BlankLabel

\* shape of x_in: (batch_size,) + self.input_shape
XInShape(i) == <<batch_size>> \o input_shape[i]

forward_base(i, data_input, r1) ==
    /\ r1 = <<>>
    /\ ret' = [Raised("forward", i, "Exception: method not implemented")
                  EXCEPT !.data_len = Len(data_input), !.data_input = data_input]

\* forward of the four variants; r1 is the row the decode procedure returns
forward_concrete(i, data_input, r1) ==
    LET in_len == InLen(i, data_input)
        x0     == Zeros(input_shape[i][1])
        a      == SetSlice(x0, Len(data_input), data_input)
        call   == [NoCall EXCEPT !.op = "forward", !.self = i,
                                 !.data_len = Len(data_input), !.in_len = in_len,
                                 !.x_in = a.buf, !.data_input = data_input,
                                 !.x_shape = XInShape(i)]
    IN  IF ~a.ok
        THEN /\ r1 = <<>>
             /\ ret' = [call EXCEPT !.status = "raise", !.exc = "ValueError"]
        ELSE IF in_len > PredictSteps(i)
        THEN /\ r1 = <<>>
             /\ ret' = [call EXCEPT !.status = "raise", !.exc = "InvalidArgumentError"]
        ELSE /\ IsCtcDecoded(r1, in_len, output_shape[i][2])
             /\ ret' = [call EXCEPT !.status = "return",
                                    !.value = ctc_decode_delete_tail_blank(r1)]

Forward_reshapes(i, data_input, r1) ==
    /\ cls[i] # "none"
    /\ IF cls[i] = "BaseModel"
       THEN forward_base(i, data_input, r1)
       ELSE forward_concrete(i, data_input, r1)
    /\ input_shape' = [input_shape EXCEPT ![i] = <<batch_size>> \o @]
    /\ UNCHANGED <<cls, output_shape, _pool_size, _model_name, model,
                   model_base, weights, fs, latest, trimVars>>

Forward(i, data_input, r1) ==
    /\ cls[i] # "none"
    /\ IF cls[i] = "BaseModel"
       THEN forward_base(i, data_input, r1)
       ELSE forward_concrete(i, data_input, r1)
    /\ UNCHANGED <<cls, input_shape, output_shape, _pool_size, _model_name, model,
                   model_base, weights, fs, latest, trimVars>>


(***************************************************************************)
(* The getters of BaseModel.                                               *)
(***************************************************************************)
Getter(i, op, value) ==
    /\ cls[i] # "none"
    /\ ret' = [Returned(op, i) EXCEPT !.value = value]
    /\ UNCHANGED <<cls, input_shape, output_shape, _pool_size, _model_name, model,
                   model_base, weights, fs, latest, trimVars>>

\* return self.model, self.model_base
GetModel(i) == Getter(i, "get_model", <<model[i], model_base[i]>>)

\* return self.model
GetTrainModel(i) == Getter(i, "get_train_model", <<model[i]>>)

\* return self.model_base
GetEvalModel(i) == Getter(i, "get_eval_model", <<model_base[i]>>)

\* return self._model_name
GetModelName(i) == Getter(i, "get_model_name", <<_model_name[i]>>)

\* self.model.summary(): prints, and fails on an instance without a graph
Summary(i) ==
    /\ cls[i] # "none"
    /\ ret' = IF model[i] = None THEN Raised("summary", i, "AttributeError")
              ELSE Returned("summary", i)
    /\ UNCHANGED <<cls, input_shape, output_shape, _pool_size, _model_name, model,
                   model_base, weights, fs, latest, trimVars>>

(***************************************************************************)
(* Weight persistence.  A path is the sequence of the pieces it is         *)
(* concatenated from, so that filename + '.model.h5' is Append.            *)
(***************************************************************************)
TrainFile_h5(filename) == Append(filename, ".h5")

TrainFile(filename) == Append(filename, ".model.h5")
BaseFile(filename) == Append(filename, ".model.base.h5")
MarkerFile(name) == <<"epoch_", name, ".txt">>

Exists(f) == f \in DOMAIN fs

Write(files, f, content) ==
    [g \in DOMAIN files \cup {f} |-> IF g = f THEN content ELSE files[g]]

\* shapes of the weighted layers: the layer stack, the width of Dense0's
\* input and the width of Dense1's output
LayerSig(i) ==
    <<cls[i], (input_shape[i][2] \div PoolSize) * ReshapeChannels, output_shape[i][2]>>

H5(i) == [kind |-> "h5", layers |-> LayerSig(i), weights |-> weights[i], text |-> <<>>]
Text(t) == [kind |-> "text", layers |-> <<>>, weights |-> 0, text |-> t]

\* the three writes of save_weights, in the order of the code; the write
\* numbered fail (1, 2 or 3) raises, 0 means none does
SaveFiles_marker_first(i, filename, fail) ==
    LET f0 == IF fail = 3 THEN fs ELSE Write(fs, MarkerFile(_model_name[i]), Text(filename))
        f1 == IF fail = 1 THEN f0 ELSE Write(f0, TrainFile(filename), H5(i))
        f2 == IF fail \in {1, 2} THEN f1 ELSE Write(f1, BaseFile(filename), H5(i))
    IN  f2

SaveFiles(i, filename, fail) ==
    LET f1 == IF fail = 1 THEN fs ELSE Write(fs, TrainFile(filename), H5(i))
        f2 == IF fail \in {1, 2} THEN f1 ELSE Write(f1, BaseFile(filename), H5(i))
        f3 == IF fail \in {1, 2, 3} THEN f2
              ELSE Write(f2, MarkerFile(_model_name[i]), Text(filename))
    IN  f3

SaveWeights(i, filename, fail) ==
    /\ cls[i] # "none"
    /\ fail \in 0..3
    /\ IF model[i] = None
       THEN /\ fail = 0
            /\ ret' = [Raised("save_weights", i, "AttributeError") EXCEPT !.filename = filename]
            /\ UNCHANGED <<fs, latest>>
       ELSE /\ fs' = SaveFiles(i, filename, fail)
            /\ IF fail = 0
               THEN /\ latest' = [latest EXCEPT ![_model_name[i]] = filename]
                    /\ ret' = [Returned("save_weights", i) EXCEPT
                                  !.filename = filename, !.params = weights[i]]
               ELSE /\ latest' = latest
                    /\ ret' = [Raised("save_weights", i, "OSError") EXCEPT
                                  !.filename = filename]
    /\ UNCHANGED <<cls, input_shape, output_shape, _pool_size, _model_name, model,
                   model_base, weights, trimVars>>

LoadTarget_suffixed(filename) == TrainFile(filename)

\* self.model.load_weights(filename): the file read is filename itself
LoadTarget(filename) == filename

LoadWeights(i, filename) ==
    /\ cls[i] # "none"
    /\ LET f == LoadTarget(filename)
           call == [NoCall EXCEPT !.op = "load_weights", !.self = i, !.filename = filename]
       IN  IF model[i] = None
           THEN /\ ret' = [call EXCEPT !.status = "raise", !.exc = "AttributeError"]
                /\ weights' = weights
           ELSE IF ~Exists(f) \/ fs[f].kind # "h5"
           THEN /\ ret' = [call EXCEPT !.status = "raise", !.exc = "OSError"]
                /\ weights' = weights
           ELSE IF fs[f].layers # LayerSig(i)
           THEN /\ ret' = [call EXCEPT !.status = "raise", !.exc = "ValueError"]
                /\ weights' = weights
           ELSE /\ ret' = [call EXCEPT !.status = "return"]
                /\ weights' = [weights EXCEPT ![i] = fs[f].weights]
    /\ UNCHANGED <<cls, input_shape, output_shape, _pool_size, _model_name, model,
                   model_base, fs, latest, trimVars>>

\* the training procedure updates the parameters through get_train_model()
Train(i, w) ==
    /\ cls[i] # "none"
    /\ model[i] # None
    /\ w # weights[i]
    /\ weights' = [weights EXCEPT ![i] = w]
    /\ UNCHANGED <<cls, input_shape, output_shape, _pool_size, _model_name, model,
                   model_base, fs, latest, ret, trimVars>>

Initialized(i) == model[i] # None /\ model_base[i] # None

(***************************************************************************)
(* Trimmer applied to arbitrary sequences.                                 *)
(***************************************************************************)
TrimCall ==
    /\ Len(trimmed) = 0
    /\ trimmed' = <<trim(ctc_decode_list, blank)>>
    /\ UNCHANGED <<ctc_decode_list, blank, modelVars>>

TrimAgain ==
    /\ Len(trimmed) = 1
    /\ trimmed' = Append(trimmed, trim(trimmed[1], blank))
    /\ UNCHANGED <<ctc_decode_list, blank, modelVars>>

(***************************************************************************)
(* Specifications.                                                         *)
(***************************************************************************)
SeqsUpTo(X, n) == UNION {[1..k -> X] : k \in 0..n}

\* a feature sequence of n non-zero frames, neighbours distinct
Features(n) == [k \in 1..n |-> 1 + (k % 2)]

\* the feature sequence of n pairwise distinct non-zero frames, so that a
\* frame in the wrong place shows
FeaturePool(n) == {[k \in 1..n |-> k]}

InitModel ==
    /\ cls = [i \in Instances |-> "none"]
    /\ input_shape = [i \in Instances |-> NoShape]
    /\ output_shape = [i \in Instances |-> NoShape]
    /\ _pool_size = [i \in Instances |-> 0]
    /\ _model_name = [i \in Instances |-> None]
    /\ model = [i \in Instances |-> None]
    /\ model_base = [i \in Instances |-> None]
    /\ weights = [i \in Instances |-> 0]
    /\ fs = [f \in {} |-> Text(<<>>)]
    /\ latest = [n \in ModelNames |-> <<>>]
    /\ ret = NoCall

Init ==
    /\ InitModel
    /\ ctc_decode_list = <<>>
    /\ blank = BlankLabel
    /\ trimmed = <<>>

\* checkpoints and markers: two instances of fixed shape, of the same or of
\* different architectures, saving to and loading from shared paths
PersistClasses == {"SpeechModel251BN", "SpeechModel251"}
PersistShape == <<MaxT, MaxF, 1>>
PathPool == {<<"a">>, <<"a", ".model.h5">>}
LoadPool == PathPool \cup {TrainFile(p) : p \in PathPool} \cup {BaseFile(<<"a">>)}

Next ==
    \/ \E i \in Instances, c \in PersistClasses :
          Construct(i, c, PersistShape, MaxVocab, 0)
    \/ \E i \in Instances, p \in PathPool, fail \in 0..3 : SaveWeights(i, p, fail)
    \/ \E i \in Instances, f \in LoadPool : LoadWeights(i, f)

Spec == Init /\ [][Next]_vars

\* lifecycle: one instance, of the base class or of a variant, and every
\* operation on it
NextLife ==
    \/ ConstructBase("m1")
    \/ \E c \in ConcreteClasses, w0 \in 0..MaxW :
          Construct("m1", c, PersistShape, MaxVocab, w0)
    \/ \E w \in 0..MaxW : Train("m1", w)
    \/ \E p \in PathPool, fail \in 0..3 : SaveWeights("m1", p, fail)
    \/ \E f \in LoadPool : LoadWeights("m1", f)
    \/ GetLossFunction("m1")
    \/ \E n \in {1, MaxT + 1}, r1 \in {<<>>, <<0>>} : Forward("m1", Features(n), r1)
    \/ GetModel("m1")
    \/ GetTrainModel("m1")
    \/ GetEvalModel("m1")
    \/ GetModelName("m1")
    \/ Summary("m1")

SpecLife == Init /\ [][NextLife]_vars

\* inference and shapes: one instance, every class and shape
DecodePool == SeqsUpTo({BlankLabel} \cup (0..(MaxVocab - 2)), MaxT \div PoolSize)

NextInfer ==
    \/ ConstructBase("m1")
    \/ \E c \in ConcreteClasses, T \in 0..MaxT, F \in {MaxF - 2, MaxF},
          o \in 2..MaxVocab :
          Construct("m1", c, <<T, F, 1>>, o, 0)
    \/ GetLossFunction("m1")
    \/ \E n \in 0..(MaxT + 1), r1 \in DecodePool :
          \E data_input \in FeaturePool(n) : Forward("m1", data_input, r1)

SpecInfer == Init /\ [][NextInfer]_vars

\* the trimmer on every sequence up to MaxLen and two blank ids
InitTrim ==
    /\ InitModel
    /\ ctc_decode_list \in SeqsUpTo({BlankLabel, 0, 1}, MaxLen)
    /\ blank \in {BlankLabel, 0}
    /\ trimmed = <<>>

NextTrim == TrimCall \/ TrimAgain

SpecTrim == InitTrim /\ [][NextTrim]_vars

(***************************************************************************)
(* Properties.                                                             *)
(***************************************************************************)

\* C1: trim(S, B) is the longest prefix of S that is empty or does not end
\* with B: it is a prefix of S, it is empty or its last element is not B, and
\* every element of S after it is B (so exactly the trailing run of B is
\* removed and interior blanks stay in place).  Checked under SpecTrim.
C1_TrimLongestPrefix ==
    Len(trimmed) >= 1 =>
        LET S == ctc_decode_list
            R == trimmed[1]
            n == Len(trimmed[1])
        IN  /\ n <= Len(S)
            /\ \A k \in 1..n : R[k] = S[k]
            /\ (n = 0 \/ R[n] # blank)
            /\ \A k \in (n + 1)..Len(S) : S[k] = blank

C1_Witness ==
    /\ blank = 0
    /\ ctc_decode_list = <<1, 0, 1, 0>>
    /\ Len(trimmed) >= 1
    /\ trimmed[1] = <<1, 0, 1>>

\* C2: trim is idempotent: trimming the trimmed sequence again gives the
\* trimmed sequence.  Checked under SpecTrim.
C2_TrimIdempotent ==
    Len(trimmed) = 2 => trimmed[2] = trimmed[1]

C2_Witness ==
    /\ blank = 0
    /\ ctc_decode_list = <<1, 0, 0>>
    /\ Len(trimmed) = 2
    /\ trimmed[2] = <<1>>

\* C3: for every constructed instance of the four variants output_shape[0]
\* is floor(input_shape[0] / 8), and output_shape[1] is the output_size the
\* constructor was given.  Checked under SpecInfer.
C3_OutputShape ==
    \A i \in Instances :
        cls[i] \in ConcreteClasses =>
            /\ Len(output_shape[i]) = 2
            /\ 8 * output_shape[i][1] <= input_shape[i][1]
            /\ input_shape[i][1] < 8 * (output_shape[i][1] + 1)
            /\ (ret.op = "__init__" /\ ret.self = i /\ ret.status = "return"
                    => output_shape[i][2] = ret.output_size)

C3_Witness ==
    /\ cls["m1"] = "SpeechModel24"
    /\ ret.op = "__init__"
    /\ ret.output_size = 3
    /\ input_shape["m1"] = <<12, 9, 1>>
    /\ output_shape["m1"] = <<1, 3>>

\* C4: forward of a variant on a feature sequence longer than
\* input_shape[0] raises: no label sequence is returned and nothing of the
\* sequence is in the buffer, which keeps its length and stays all zero.
\* Checked under SpecInfer.
C4_TooLongRaises ==
    (/\ ret.op = "forward"
     /\ cls[ret.self] \in ConcreteClasses
     /\ ret.data_len > input_shape[ret.self][1])
        => /\ ret.status = "raise"
           /\ ret.value = <<>>
           /\ Len(ret.x_in) = input_shape[ret.self][1]
           /\ \A k \in 1..Len(ret.x_in) : ret.x_in[k] = 0

C4_Witness ==
    /\ ret.op = "forward"
    /\ cls["m1"] = "SpeechModel251BN"
    /\ input_shape["m1"][1] = 12
    /\ ret.data_len = 13
    /\ ret.status = "raise"

\* C5: on an instance of BaseModel itself get_loss_function and forward
\* raise "method not implemented" and return no value.  Checked under
\* SpecInfer.
C5_BaseNotImplemented ==
    (ret.op \in {"get_loss_function", "forward"} /\ cls[ret.self] = "BaseModel")
        => /\ ret.status = "raise"
           /\ ret.exc = "Exception: method not implemented"
           /\ ret.value = <<>>

C5_Witness ==
    /\ cls["m1"] = "BaseModel"
    /\ ret.op = "get_loss_function"
    /\ ret.status = "raise"

C7_SamePathRoundTrip ==
    [][(/\ ret.op = "save_weights" /\ ret.status = "return"
        /\ ret'.op = "load_weights" /\ ret'.self = ret.self
        /\ ret'.filename = ret.filename)
          => (ret'.status = "return" /\ weights'[ret.self] = ret.params)]_vars

\* C7 amended: save_weights(path) that returned, followed (training aside)
\* by load_weights(path + '.model.h5') on the same instance, returns and
\* leaves the parameters shared by both graphs at their values at the save.
\* Checked under SpecLife.
C7_SuffixedRoundTrip ==
    [][(/\ ret.op = "save_weights" /\ ret.status = "return"
        /\ ret'.op = "load_weights" /\ ret'.self = ret.self
        /\ ret'.filename = Append(ret.filename, ".model.h5"))
          => (ret'.status = "return" /\ weights'[ret.self] = ret.params)]_vars

C7_Witness ==
    /\ ret.op = "load_weights"
    /\ ret.status = "return"
    /\ ret.filename = <<"a", ".model.h5">>
    /\ latest[_model_name["m1"]] = <<"a">>
    /\ ~Exists(<<"a", ".model.h5", ".model.h5">>)
    /\ weights["m1"] = 1
    /\ fs[<<"a", ".model.h5">>].weights = 1

\* C8: forward of a variant on a feature sequence no longer than
\* input_shape[0] returns a label sequence of at most output_shape[0] =
\* input_shape[0] // 8 labels that is empty or does not end with the blank
\* label.  Checked under SpecInfer.
C8_ForwardResult ==
    (/\ ret.op = "forward"
     /\ cls[ret.self] \in ConcreteClasses
     /\ ret.data_len <= input_shape[ret.self][1])
        => /\ ret.status = "return"
           /\ Len(ret.value) <= output_shape[ret.self][1]
           /\ 8 * Len(ret.value) <= input_shape[ret.self][1]
           /\ (Len(ret.value) = 0 \/ ret.value[Len(ret.value)] # BlankLabel)

C8_Witness ==
    /\ ret.op = "forward"
    /\ ret.status = "return"
    /\ input_shape["m1"][1] = 16
    /\ ret.data_len = 16
    /\ ret.value = <<1, 0>>

\* C9 as stated: every constructed instance is initialized (both graphs
\* present).  Checked under SpecLife.
C9_EveryInstanceInitialized ==
    \A i \in Instances : cls[i] # "none" => Initialized(i)

\* C9 amended: construction of one of the four variants leaves the instance
\* initialized, a load_weights that returns leaves it initialized, and no
\* step (forward, get_loss_function, save_weights, load_weights, training)
\* takes an initialized instance back to uninitialized.  Checked under
\* SpecLife.
C9_Lifecycle ==
    [][\A i \in Instances :
          /\ (cls'[i] \in ConcreteClasses => Initialized(i)')
          /\ (Initialized(i) => Initialized(i)')
          /\ ((ret'.op = "load_weights" /\ ret'.self = i /\ ret'.status = "return")
                 => Initialized(i)')]_vars

C9_Witness ==
    /\ cls["m1"] \in ConcreteClasses
    /\ Initialized("m1")
    /\ ret.op = "load_weights"
    /\ ret.status = "raise"
    /\ Exists(<<"a", ".model.h5">>)

\* C10 as stated: the input length forward hands to the decode procedure
\* is the true length of the utterance, counted in frames or in output
\* steps.  Checked under SpecInfer.
C10_TrueInputLength ==
    (ret.op = "forward" /\ ret.status = "return")
        => ret.in_len \in {ret.data_len, ret.data_len \div 8}

\* C10 amended: the input length forward hands to the decode procedure is
\* output_shape[0] = input_shape[0] // 8, whatever the length of the
\* utterance.  Checked under SpecInfer.
C10_ConfiguredOutputLength ==
    (ret.op = "forward" /\ ret.status = "return")
        => /\ 8 * ret.in_len <= input_shape[ret.self][1]
           /\ input_shape[ret.self][1] < 8 * (ret.in_len + 1)

C10_Witness ==
    /\ ret.op = "forward"
    /\ ret.status = "return"
    /\ input_shape["m1"][1] = 16
    /\ ret.data_len = 8
    /\ ret.in_len = 2

\* C11: when forward of a variant accepts a feature sequence of n frames,
\* n <= input_shape[0], the buffer given to the inference graph has the
\* shape (1,) + input_shape, its first n frames are the frames of the
\* sequence in order, and every later frame is zero.  Checked under
\* SpecInfer.
C11_PaddedBuffer ==
    (/\ ret.op = "forward"
     /\ cls[ret.self] \in ConcreteClasses
     /\ Len(ret.data_input) <= input_shape[ret.self][1])
        => /\ ret.status = "return"
           /\ ret.x_shape = <<1, input_shape[ret.self][1], input_shape[ret.self][2], 1>>
           /\ Len(ret.x_in) = input_shape[ret.self][1]
           /\ \A k \in 1..Len(ret.x_in) :
                 ret.x_in[k] = IF k <= Len(ret.data_input) THEN ret.data_input[k] ELSE 0

C11_Witness ==
    /\ ret.op = "forward"
    /\ ret.status = "return"
    /\ input_shape["m1"] = <<12, 9, 1>>
    /\ ret.data_input = <<1, 2, 3, 4, 5>>
    /\ ret.x_in = <<1, 2, 3, 4, 5, 0, 0, 0, 0, 0, 0, 0>>

\* C12: no call on a constructed instance (forward, get_loss_function,
\* save_weights, load_weights, the getters, summary) and no training step
\* changes its input_shape, output_shape, _pool_size or _model_name: they
\* keep the values the constructor set.  Checked under SpecLife.
C12_ConfigurationImmutable ==
    [][\A i \in Instances :
          cls[i] # "none" =>
              /\ cls'[i] = cls[i]
              /\ input_shape'[i] = input_shape[i]
              /\ output_shape'[i] = output_shape[i]
              /\ _pool_size'[i] = _pool_size[i]
              /\ _model_name'[i] = _model_name[i]]_vars

C12_Witness ==
    /\ cls["m1"] = "SpeechModel251BN"
    /\ ret.op = "get_model_name"
    /\ ret.value = <<"SpeechModel251bn">>
    /\ Exists(MarkerFile("SpeechModel251bn"))
    /\ Exists(<<"a", ".model.h5">>)
    /\ weights["m1"] # fs[<<"a", ".model.h5">>].weights
    /\ input_shape["m1"] = PersistShape
    /\ output_shape["m1"] = OutputShape(PersistShape, MaxVocab)
    /\ _pool_size["m1"] = 8

\* C13: in each of the four variants the pool sizes of the pooling stages
\* multiply to 8; whenever the constructor builds the graph for an input
\* shape (T, F, 1) the tensor after the last pooling stage is
\* (floor(T/8), floor(F/8), 128) and has as many elements as the Reshape
\* target (output_shape[0], F // 8 * 128); and the constructor raises only
\* when T or F is below 8, never because the Reshape does not fit.  Checked
\* under SpecInfer.
C13_PoolingMatchesReshape ==
    (ret.op = "__init__" /\ ret.arg_cls \in ConcreteClasses) =>
        LET T == ret.arg_shape[1]
            F == ret.arg_shape[2]
            p == ret.pooled
            r == ret.reshape
        IN  /\ Product(PoolStages(ret.arg_cls)) = 8
            /\ ret.status = "return" =>
                  /\ _pool_size[ret.self] = 8
                  /\ 8 * p[1] <= T /\ T < 8 * (p[1] + 1)
                  /\ 8 * p[2] <= F /\ F < 8 * (p[2] + 1)
                  /\ p[3] = 128
                  /\ r = <<output_shape[ret.self][1], p[2] * 128>>
                  /\ p[1] * p[2] * p[3] = r[1] * r[2]
            /\ ret.status = "raise" => (T < 8 \/ F < 8)

C13_Witness ==
    /\ ret.op = "__init__"
    /\ ret.status = "return"
    /\ ret.arg_cls = "SpeechModel25"
    /\ ret.arg_shape = <<17, 9, 1>>
    /\ ret.pooled = <<2, 1, 128>>
    /\ ret.reshape = <<2, 128>>
====
